---- MODULE Spec2Model ----
(***************************************************************************)
(* A model of deploy.py, the Slacker Cow deployment script.                *)
(*                                                                         *)
(* Text (str values of the program) is a sequence of one-character         *)
(* strings, so that split, rsplit, replace, int() and the regular          *)
(* expression POD_ID_MATCH are computed character by character, the way    *)
(* the interpreter computes them.                                          *)
(***************************************************************************)
EXTENDS Integers, Sequences, FiniteSets, TLC

VARIABLES
    pc,                 \* position of the interpreter in main() / deploy()
    entry,              \* "main": the script is run; "deploy": deploy() is called directly
    run,                \* number of the current run (1-based)
    status,             \* exit status of the run: -1 while it runs
    exc,                \* the exception in flight ("none" when there is none)
    cmds,               \* every subprocess.Popen call of this run, in order, with its outcome
    secrets_checked,    \* file names get_secret was called with in this run
    pods_out,           \* output captured from `kubectl get pods`
    pod_id, current_version, new_version,
    slack_token, jenkins_api_token,
    delete_desc_file,   \* deploy()'s keyword argument
    template,           \* deploy()'s local: the template text being rendered
    template_read,      \* whether FRONTEND_TEMPLATE was opened and read in this run
    kube_desc,          \* name of the temporary file (0: none created in this run)
    created,            \* names of the temporary files created in this run
    k8s_pods,           \* the orchestrator: names of the running pods, in listing order
    fs_secret,          \* the working directory: secret file name -> file
    fs_template,        \* the file FRONTEND_TEMPLATE
    fs_tmp,             \* the temp directory: name -> content of the files in it
    deployed,           \* history: one record per rolling-update invoked, over all runs
    completed,          \* history: the version the last completed rolling-update left running
    partial,            \* history: some rolling-update so far stopped partway
    p_op, p_in, p_out   \* application of a pure function: operation, input, result

progVars == <<pc, entry, run, status, exc, cmds, secrets_checked, pods_out, pod_id, current_version,
              new_version, slack_token, jenkins_api_token, delete_desc_file, template,
              template_read, kube_desc, created>>
envVars == <<k8s_pods, fs_secret, fs_template, fs_tmp>>
histVars == <<deployed, completed, partial>>
pureVars == <<p_op, p_in, p_out>>
vars == <<progVars, envVars, histVars, pureVars>>

----------------------------------------------------------------------------
(* Characters and text *)

Digits == <<"0","1","2","3","4","5","6","7","8","9">>

IsDigit(c) == \E d \in 1..10 : Digits[d] = c

\* What Python's \s and str.strip() take for whitespace (ASCII).
Whitespace == {" ", "\t", "\n", "\r", "\f"}

IsSpace(c) == c \in Whitespace

\* s[i:] with a 1-based i.
Drop(s, i) == SubSeq(s, i, Len(s))

\* Whether sub occurs in s at position i.
OccursAt(s, sub, i) ==
    /\ i >= 1
    /\ i + Len(sub) - 1 <= Len(s)
    /\ SubSeq(s, i, i + Len(sub) - 1) = sub

\* str.find from position i on: the least position >= i where sub occurs, 0 if none.
RECURSIVE Find(_, _, _)
Find(s, sub, i) ==
    IF i + Len(sub) - 1 > Len(s) THEN 0
    ELSE IF OccursAt(s, sub, i) THEN i
    ELSE Find(s, sub, i + 1)

\* str.rfind: the greatest position where sub occurs, 0 if none.
RECURSIVE RFindFrom(_, _, _)
RFindFrom(s, sub, i) ==
    IF i < 1 THEN 0
    ELSE IF OccursAt(s, sub, i) THEN i
    ELSE RFindFrom(s, sub, i - 1)

RFind(s, sub) == RFindFrom(s, sub, Len(s) - Len(sub) + 1)

\* str.split(sep): every piece between the occurrences of sep, left to right.
RECURSIVE Split(_, _)
Split(s, sep) ==
    LET i == Find(s, sep, 1)
    IN  IF i = 0 THEN <<s>>
        ELSE <<SubSeq(s, 1, i - 1)>> \o Split(Drop(s, i + Len(sep)), sep)

\* str.rsplit(sep, 1): at most one split, at the last occurrence of sep.
RSplit1(s, sep) ==
    LET i == RFind(s, sep)
    IN  IF i = 0 THEN <<s>>
        ELSE <<SubSeq(s, 1, i - 1), Drop(s, i + Len(sep))>>

\* str.replace(old, new) for a non-empty old: the non-overlapping occurrences of
\* old, found left to right, each replaced by new.
RECURSIVE Replace(_, _, _)
Replace(s, old, new) ==
    LET i == Find(s, old, 1)
    IN  IF i = 0 THEN s
        ELSE SubSeq(s, 1, i - 1) \o new \o Replace(Drop(s, i + Len(old)), old, new)

\* str.strip(): leading and trailing whitespace removed.
RECURSIVE LStrip(_)
LStrip(s) == IF s # <<>> /\ IsSpace(Head(s)) THEN LStrip(Tail(s)) ELSE s

RECURSIVE RStrip(_)
RStrip(s) ==
    IF s # <<>> /\ IsSpace(s[Len(s)]) THEN RStrip(SubSeq(s, 1, Len(s) - 1)) ELSE s

Strip(s) == RStrip(LStrip(s))

\* '%s' % n for an integer n: its decimal numeral.
RECURSIVE NatStr(_)
NatStr(n) == IF n < 10 THEN <<Digits[n + 1]>> ELSE NatStr(n \div 10) \o <<Digits[(n % 10) + 1]>>

IntStr(n) == IF n < 0 THEN <<"-">> \o NatStr(-n) ELSE NatStr(n)

DigitVal(c) == CHOOSE d \in 0..9 : Digits[d + 1] = c

RECURSIVE DigitsVal(_)
DigitsVal(s) ==
    IF s = <<>> THEN 0 ELSE 10 * DigitsVal(SubSeq(s, 1, Len(s) - 1)) + DigitVal(s[Len(s)])

AllDigits(s) == s # <<>> /\ \A i \in 1..Len(s) : IsDigit(s[i])

\* int(s): surrounding whitespace and one sign are accepted, then decimal digits
\* only; anything else raises ValueError.
ParseInt(s) ==
    LET t == Strip(s)
        signed == t # <<>> /\ Head(t) \in {"+", "-"}
        body == IF signed THEN Tail(t) ELSE t
    IN  IF AllDigits(body)
        THEN [ok |-> TRUE, val |-> IF signed /\ Head(t) = "-" THEN -DigitsVal(body) ELSE DigitsVal(body)]
        ELSE [ok |-> FALSE, val |-> 0]

----------------------------------------------------------------------------
(* Module constants of deploy.py *)

VERSION_REPLACEMENT ==
    <<"X","X","X","-","R","E","P","L","A","C","E","-","W","I","T","H","-","N","E","W","-","V","E","R","S","I","O","N","-","X","X","X">>

SLACK_REPLACEMENT ==
    <<"X","X","X","-","R","E","P","L","A","C","E","-","W","I","T","H","-","S","L","A","C","K","-","T","O","K","E","N","-","X","X","X">>

JENKINS_API_REPLACEMENT ==
    <<"X","X","X","-","R","E","P","L","A","C","E","-","W","I","T","H","-","J","E","N","K","I","N","S","-","A","P","I","-","T","O","K","E","N","-","X","X","X">>

SLACK_TOKEN_FILE == ".slack_token"

JENKINS_API_TOKEN_FILE == ".jenkins_api_token"

\* The literal head of POD_ID_MATCH.
FrontendV == <<"f","r","o","n","t","e","n","d","-","v">>

----------------------------------------------------------------------------
(* The pure functions *)

\* The end of the longest run of characters satisfying the class, from position i:
\* the position after the run.
RECURSIVE DigitRunEnd(_, _)
DigitRunEnd(s, i) == IF i <= Len(s) /\ IsDigit(s[i]) THEN DigitRunEnd(s, i + 1) ELSE i

RECURSIVE NonSpaceRunEnd(_, _)
NonSpaceRunEnd(s, i) == IF i <= Len(s) /\ ~IsSpace(s[i]) THEN NonSpaceRunEnd(s, i + 1) ELSE i

\* POD_ID_MATCH tried at position i: the position after the match, 0 if the
\* pattern does not match there.  \d+ and [^\s]+ are greedy; giving digits back
\* cannot help, as the next pattern character is a literal hyphen.
MatchAt(s, i) ==
    IF ~OccursAt(s, FrontendV, i) THEN 0
    ELSE LET d == DigitRunEnd(s, i + Len(FrontendV))
         IN  IF d = i + Len(FrontendV) \/ d > Len(s) \/ s[d] # "-" THEN 0
             ELSE LET e == NonSpaceRunEnd(s, d + 1)
                  IN  IF e = d + 1 THEN 0 ELSE e

\* POD_ID_MATCH.search(s): the leftmost match, or None.
RECURSIVE SearchFrom(_, _)
SearchFrom(s, i) ==
    IF i > Len(s) THEN [found |-> FALSE, group |-> <<>>]
    ELSE LET e == MatchAt(s, i)
         IN  IF e # 0 THEN [found |-> TRUE, group |-> SubSeq(s, i, e - 1)]
             ELSE SearchFrom(s, i + 1)

\* A search that returns the match starting last.
RECURSIVE SearchBack(_, _)
SearchBack(s, i) ==
    IF i < 1 THEN [found |-> FALSE, group |-> <<>>]
    ELSE LET e == MatchAt(s, i)
         IN  IF e # 0 THEN [found |-> TRUE, group |-> SubSeq(s, i, e - 1)]
             ELSE SearchBack(s, i - 1)

POD_ID_MATCH_search_last(s) == SearchBack(s, Len(s))

POD_ID_MATCH_search(s) == SearchFrom(s, 1)

\* get_version with split in the place of rsplit: cut at the first hyphen.
get_version_first(s) == Split(s, <<"-">>)[1]

get_version(s) == RSplit1(s, <<"-">>)[1]

\* increment_version with int(version) in the place of int(version[1:]).
increment_version_keepv(cv) ==
    LET parts == Split(cv, <<"-">>)
    IN  IF Len(parts) # 2 THEN [exc |-> "ValueError", val |-> <<>>]
        ELSE LET n == ParseInt(parts[2])
             IN  IF ~n.ok THEN [exc |-> "ValueError", val |-> <<>>]
                 ELSE [exc |-> "none", val |-> parts[1] \o <<"-", "v">> \o IntStr(n.val + 1)]

\* increment_version without its "+ 1".
increment_version_same(cv) ==
    LET parts == Split(cv, <<"-">>)
    IN  IF Len(parts) # 2 THEN [exc |-> "ValueError", val |-> <<>>]
        ELSE LET n == ParseInt(Tail(parts[2]))
             IN  IF ~n.ok THEN [exc |-> "ValueError", val |-> <<>>]
                 ELSE [exc |-> "none", val |-> parts[1] \o <<"-", "v">> \o IntStr(n.val)]

\* increment_version: the tuple unpacking raises ValueError unless split yields
\* exactly two pieces, and int() raises ValueError on a malformed number.
increment_version(cv) ==
    LET parts == Split(cv, <<"-">>)
    IN  IF Len(parts) # 2 THEN [exc |-> "ValueError", val |-> <<>>]
        ELSE LET n == ParseInt(Tail(parts[2]))
             IN  IF ~n.ok THEN [exc |-> "ValueError", val |-> <<>>]
                 ELSE [exc |-> "none", val |-> parts[1] \o <<"-", "v">> \o IntStr(n.val + 1)]

\* The replacements without the one of the Jenkins token.
Render_nojenkins(t, new, slack, jenkins) ==
    Replace(Replace(t, VERSION_REPLACEMENT, new), SLACK_REPLACEMENT, slack)

\* The three replacements of deploy(), in the order the code makes them.
Render(t, new, slack, jenkins) ==
    Replace(Replace(Replace(t, VERSION_REPLACEMENT, new), SLACK_REPLACEMENT, slack),
            JENKINS_API_REPLACEMENT, jenkins)

----------------------------------------------------------------------------
(* The values the program's variables hold while no run is modelled *)

\* A file: whether it exists, and its content.
Absent == [exists |-> FALSE, content |-> <<>>]

File(c) == [exists |-> TRUE, content |-> c]

MainOff ==
    /\ pc = "off" /\ entry = "none" /\ run = 0 /\ status = -1 /\ exc = "none"
    /\ cmds = <<>> /\ secrets_checked = {} /\ pods_out = <<>> /\ pod_id = <<>>
    /\ current_version = <<>> /\ new_version = <<>>
    /\ slack_token = <<>> /\ jenkins_api_token = <<>>
    /\ delete_desc_file = TRUE /\ template = <<>> /\ template_read = FALSE
    /\ kube_desc = 0 /\ created = {}
    /\ k8s_pods = <<>> /\ fs_secret = <<>> /\ fs_template = Absent /\ fs_tmp = <<>>
    /\ deployed = <<>> /\ completed = <<>> /\ partial = FALSE

PureOff == p_op = "off" /\ p_in = <<>> /\ p_out = <<>>

----------------------------------------------------------------------------
(* get_version and increment_version applied to bounded inputs *)

\* Greatest version number of an input.
MaxN == 110

\* Greatest number of leading zeros of an input's numeral.
MaxPad == 1

RECURSIVE Zeros(_)
Zeros(k) == IF k = 0 THEN <<>> ELSE <<"0">> \o Zeros(k - 1)

Prefixes ==
    { <<"f","r","o","n","t","e","n","d">>, <<"a","p","p">>, <<>>,
      <<"m","y","-","a","p","p">> }

Suffixes ==
    { <<"a","b","c","d","e">>, <<"x","1">>, <<"a","b","-","c","d">>, <<"q","-">> }

VersionInputs ==
    { [kind |-> "version", prefix |-> p, n |-> n, suffix |-> <<>>,
       text |-> p \o <<"-", "v">> \o Zeros(z) \o NatStr(n)]
      : p \in Prefixes, n \in 0..MaxN, z \in 0..MaxPad }

PodInputs ==
    { [kind |-> "pod", prefix |-> <<"f","r","o","n","t","e","n","d">>, n |-> n, suffix |-> x,
       text |-> FrontendV \o NatStr(n) \o <<"-">> \o x]
      : n \in 0..MaxN, x \in Suffixes }

VersionInit ==
    /\ MainOff
    /\ p_op = "input"
    /\ p_in \in VersionInputs \cup PodInputs
    /\ p_out = <<>>

ApplyIncrementVersion ==
    /\ p_op = "input" /\ p_in.kind = "version"
    /\ p_op' = "increment_version"
    /\ p_out' = increment_version(p_in.text)
    /\ UNCHANGED <<p_in, progVars, envVars, histVars>>

\* increment_version applied to its own result.
ApplyIncrementAgain ==
    /\ p_op = "increment_version" /\ p_out.exc = "none"
    /\ p_op' = "increment_twice"
    /\ p_out' = increment_version(p_out.val)
    /\ UNCHANGED <<p_in, progVars, envVars, histVars>>

ApplyGetVersion ==
    /\ p_op = "input" /\ p_in.kind = "pod"
    /\ p_op' = "get_version"
    /\ p_out' = [exc |-> "none", val |-> get_version(p_in.text)]
    /\ UNCHANGED <<p_in, progVars, envVars, histVars>>

VersionNext == ApplyIncrementVersion \/ ApplyIncrementAgain \/ ApplyGetVersion

SpecVersion == VersionInit /\ [][VersionNext]_vars

HasHyphen(s) == \E i \in 1..Len(s) : s[i] = "-"

\* "<prefix>-v<N>" for a number N.
VersionText(prefix, n) == prefix \o <<"-", "v">> \o NatStr(n)

\* C3 as stated: for every version string "<prefix>-v<N>", increment_version
\* returns "<prefix>-v<N+1>", and applied twice "<prefix>-v<N+2>".
C3_AnyPrefix ==
    /\ p_op = "increment_version" =>
          p_out = [exc |-> "none", val |-> VersionText(p_in.prefix, p_in.n + 1)]
    /\ p_op = "increment_twice" =>
          p_out = [exc |-> "none", val |-> VersionText(p_in.prefix, p_in.n + 2)]

\* C3, amended: for every version string "<prefix>-v<N>" whose prefix holds no
\* hyphen, increment_version returns "<prefix>-v<N+1>", and increment_version
\* applied to that result returns "<prefix>-v<N+2>".
C3_IncrementVersion ==
    /\ (p_op = "increment_version" /\ ~HasHyphen(p_in.prefix)) =>
          p_out = [exc |-> "none", val |-> VersionText(p_in.prefix, p_in.n + 1)]
    /\ (p_op = "increment_twice" /\ ~HasHyphen(p_in.prefix)) =>
          p_out = [exc |-> "none", val |-> VersionText(p_in.prefix, p_in.n + 2)]

\* C3, witness: increment_version was applied twice to "frontend-v99", whose numeral grows.
C3_Witness ==
    /\ p_op = "increment_twice"
    /\ p_in.prefix = <<"f","r","o","n","t","e","n","d">>
    /\ p_in.n = 99
    /\ p_out.val = VersionText(p_in.prefix, 101)

\* C4 as stated: for every "frontend-v<N>-<suffix>" whose suffix is a token
\* [^\s]+ can match, get_version returns "frontend-v<N>".
C4_AnySuffix ==
    p_op = "get_version" => p_out.val = FrontendV \o NatStr(p_in.n)

\* C4, amended: for every "frontend-v<N>-<suffix>" whose suffix holds no hyphen,
\* get_version returns "frontend-v<N>".
C4_GetVersion ==
    (p_op = "get_version" /\ ~HasHyphen(p_in.suffix)) =>
        p_out.val = FrontendV \o NatStr(p_in.n)

\* C4, witness: get_version was applied to "frontend-v10-abcde".
C4_Witness ==
    /\ p_op = "get_version"
    /\ p_in.n = 10
    /\ p_in.suffix = <<"a","b","c","d","e">>
    /\ p_out.val = FrontendV \o <<"1", "0">>

----------------------------------------------------------------------------
(* The substitution of deploy() applied to bounded templates and values *)

Placeholders == <<VERSION_REPLACEMENT, SLACK_REPLACEMENT, JENKINS_API_REPLACEMENT>>

Permutations3 ==
    { q \in [1..3 -> 1..3] : \A i, j \in 1..3 : i # j => q[i] # q[j] }

\* Text between two placeholders of a template.
Fillers == { <<>>, <<"\"", ",", "\"">> }

\* Templates with the three placeholders in every order.
RegularTemplates ==
    { <<"{", "\"">> \o Placeholders[q[1]] \o f \o Placeholders[q[2]] \o g
         \o Placeholders[q[3]] \o <<"\"", "}">>
      : q \in Permutations3, f \in Fillers, g \in Fillers }

\* Templates in which two placeholders share their "XXX", in which the version
\* placeholder stands inside the text of another one, and in which a placeholder
\* is missing or doubled.
OddTemplates ==
    { VERSION_REPLACEMENT \o Drop(SLACK_REPLACEMENT, 4) \o <<",">> \o JENKINS_API_REPLACEMENT,
      SLACK_REPLACEMENT \o Drop(JENKINS_API_REPLACEMENT, 4) \o <<",">> \o VERSION_REPLACEMENT,
      SubSeq(SLACK_REPLACEMENT, 1, 23) \o VERSION_REPLACEMENT \o Drop(SLACK_REPLACEMENT, 24)
         \o <<",">> \o SLACK_REPLACEMENT \o <<",">> \o JENKINS_API_REPLACEMENT,
      <<"X", "X", "X">> \o VERSION_REPLACEMENT \o SubSeq(JENKINS_API_REPLACEMENT, 5, 38)
         \o <<",">> \o SLACK_REPLACEMENT \o <<",">> \o JENKINS_API_REPLACEMENT,
      VERSION_REPLACEMENT \o <<",">> \o JENKINS_API_REPLACEMENT,
      VERSION_REPLACEMENT \o <<",">> \o SLACK_REPLACEMENT \o <<",">> \o SLACK_REPLACEMENT
         \o <<",">> \o JENKINS_API_REPLACEMENT }

NewValues ==
    { <<"f","r","o","n","t","e","n","d","-","v","4">>, <<>>, <<"-">>, SLACK_REPLACEMENT }

SlackValues ==
    { <<"x","o","x","b","-","1","2">>, <<>>, JENKINS_API_REPLACEMENT, VERSION_REPLACEMENT }

JenkinsValues == { <<"k","9">>, <<>>, SLACK_REPLACEMENT }

TemplateInputs ==
    { [kind |-> "template", text |-> t, new |-> v, slack |-> x, jenkins |-> j]
      : t \in RegularTemplates \cup OddTemplates,
        v \in NewValues, x \in SlackValues, j \in JenkinsValues }

TemplateInit ==
    /\ MainOff
    /\ p_op = "input"
    /\ p_in \in TemplateInputs
    /\ p_out = <<>>

ApplyRender ==
    /\ p_op = "input" /\ p_in.kind = "template"
    /\ p_op' = "render"
    /\ p_out' = Render(p_in.text, p_in.new, p_in.slack, p_in.jenkins)
    /\ UNCHANGED <<p_in, progVars, envVars, histVars>>

TemplateNext == ApplyRender

SpecTemplate == TemplateInit /\ [][TemplateNext]_vars

\* Number of positions of s at which sub occurs.
Count(s, sub) == Cardinality({ i \in 1..Len(s) : OccursAt(s, sub, i) })

EachExactlyOnce(t) == \A k \in 1..3 : Count(t, Placeholders[k]) = 1

\* The simultaneous substitution: the template is read once, left to right, each
\* placeholder met gives its value, any other character is copied, and nothing
\* that was substituted is read again.
RECURSIVE Simultaneous(_, _, _)
Simultaneous(t, vals, i) ==
    IF i > Len(t) THEN <<>>
    ELSE IF \E k \in 1..3 : OccursAt(t, Placeholders[k], i)
    THEN LET k == CHOOSE k \in 1..3 : OccursAt(t, Placeholders[k], i)
         IN  vals[k] \o Simultaneous(t, vals, i + Len(Placeholders[k]))
    ELSE <<t[i]>> \o Simultaneous(t, vals, i + 1)

\* The occurrences of the three placeholders in t share no character.
Disjoint(t) ==
    \A k, m \in 1..3 :
        k # m =>
           LET a == Find(t, Placeholders[k], 1)
               b == Find(t, Placeholders[m], 1)
           IN  a + Len(Placeholders[k]) <= b \/ b + Len(Placeholders[m]) <= a

Chars(s) == { s[i] : i \in 1..Len(s) }

PlaceholderChars == UNION { Chars(Placeholders[k]) : k \in 1..3 }

\* A value that cannot be, begin, end or complete a placeholder: not empty, no
\* "X" in it, and some character in it that no placeholder holds.
Inert(v) == v # <<>> /\ "X" \notin Chars(v) /\ Chars(v) \ PlaceholderChars # {}

\* C5 as stated: on a template holding each placeholder exactly once, the
\* substitution of deploy() equals the simultaneous substitution of the three
\* values, whatever the values.
C5_AnyValues ==
    (p_op = "render" /\ EachExactlyOnce(p_in.text)) =>
        p_out = Simultaneous(p_in.text, <<p_in.new, p_in.slack, p_in.jenkins>>, 1)

\* C5, amended: on a template holding each placeholder exactly once, the
\* occurrences sharing no character, and with a version value and a Slack token
\* that are not empty, hold no "X" and hold a character found in no placeholder,
\* the substitution of deploy() equals the simultaneous substitution of the
\* three values (the Jenkins token is any text).
C5_Render ==
    (/\ p_op = "render"
     /\ EachExactlyOnce(p_in.text) /\ Disjoint(p_in.text)
     /\ Inert(p_in.new) /\ Inert(p_in.slack)) =>
        p_out = Simultaneous(p_in.text, <<p_in.new, p_in.slack, p_in.jenkins>>, 1)

\* C5, witness: a template with the placeholders in the order Jenkins, Slack, version was
\* rendered with a Jenkins token that is itself the Slack placeholder.
C5_Witness ==
    /\ p_op = "render"
    /\ EachExactlyOnce(p_in.text) /\ Disjoint(p_in.text)
    /\ Inert(p_in.new) /\ Inert(p_in.slack)
    /\ p_in.jenkins = SLACK_REPLACEMENT
    /\ Find(p_in.text, JENKINS_API_REPLACEMENT, 1) < Find(p_in.text, SLACK_REPLACEMENT, 1)
    /\ Find(p_in.text, SLACK_REPLACEMENT, 1) < Find(p_in.text, VERSION_REPLACEMENT, 1)
    /\ Count(p_out, SLACK_REPLACEMENT) = 1

----------------------------------------------------------------------------
(* The environment of a run: the orchestrator, the working directory, the
   temp directory *)

\* Greatest number of runs, one after the other, against the same orchestrator.
MaxRuns == 2

Frontend == <<"f","r","o","n","t","e","n","d">>

PodSuffix == <<"a","b","c","d","e">>

\* `kubectl get pods` prints a header line and one line per running pod, the
\* pod's name first.
ListingHeader == <<"P","O","D"," ","S","T","A","T","U","S","\n">>

RECURSIVE PodLines(_)
PodLines(pods) ==
    IF pods = <<>> THEN <<>>
    ELSE Head(pods) \o <<" ","R","u","n","n","i","n","g","\n">> \o PodLines(Tail(pods))

PodListing(pods) == ListingHeader \o PodLines(pods)

\* A pod of replication controller `version` runs.
RunsVersion(pods, version) ==
    \E i \in 1..Len(pods) : OccursAt(pods[i], version \o <<"-">>, 1)

\* Version numbers the orchestrator runs before the first run.
StartNumbers == {3, 9, 99}

\* The orchestrator before the first run: one version running (left by a
\* completed rolling-update); a pod whose generated suffix holds a hyphen; two
\* versions side by side (left by a rolling-update that stopped partway); no
\* frontend pod at all.
InitialClusters ==
    { [pods |-> <<VersionText(Frontend, n) \o <<"-">> \o PodSuffix>>,
       completed |-> VersionText(Frontend, n), partial |-> FALSE] : n \in StartNumbers }
    \cup
    { [pods |-> <<VersionText(Frontend, 3) \o <<"-","a","b","-","c","d">>>>,
       completed |-> VersionText(Frontend, 3), partial |-> FALSE],
      [pods |-> <<VersionText(Frontend, 4) \o <<"-","x","7">>,
                  VersionText(Frontend, 3) \o <<"-">> \o PodSuffix>>,
       completed |-> VersionText(Frontend, 3), partial |-> TRUE],
      [pods |-> <<>>, completed |-> <<>>, partial |-> FALSE] }

SecretFiles == {SLACK_TOKEN_FILE, JENKINS_API_TOKEN_FILE}

\* Content of a secret file that exists.
SecretContent ==
    [f \in SecretFiles |->
        IF f = SLACK_TOKEN_FILE THEN <<" ","x","o","x","b","-","1","2","\n">>
        ELSE <<"k","9","\n">>]

InitialSecrets ==
    { [f \in SecretFiles |-> IF f \in present THEN File(SecretContent[f]) ELSE Absent]
      : present \in SUBSET SecretFiles }

\* kubecfg/frontend-controller.template.json, when it exists: a JSON text with
\* v, s and j where the version and the two tokens go.
TemplateText(v, s, j) ==
    <<"{","\"","v","e","r","s","i","o","n","\"",":","\"">> \o v
    \o <<"\"",",","\"","s","l","a","c","k","\"",":","\"">> \o s
    \o <<"\"",",","\"","j","e","n","k","i","n","s","\"",":","\"">> \o j
    \o <<"\"","}">>

TemplateFile == TemplateText(VERSION_REPLACEMENT, SLACK_REPLACEMENT, JENKINS_API_REPLACEMENT)

\* Outcome of starting a command and waiting for it: exit code zero, a non-zero
\* exit code, or Popen failing to start it.
Outcomes == {"zero", "nonzero", "nostart"}

Cmd(tool, sub, arg, file, out) ==
    [tool |-> tool, sub |-> sub, arg |-> arg, file |-> file, out |-> out]

\* A name tempfile.NamedTemporaryFile has not given to a file that still exists.
FreshName == CHOOSE n \in 1..(Cardinality(DOMAIN fs_tmp) + 1) : n \notin DOMAIN fs_tmp

----------------------------------------------------------------------------
(* The run *)

Init ==
    /\ PureOff
    /\ pc = "start" /\ run = 1 /\ status = -1 /\ exc = "none"
    /\ entry \in {"main", "deploy"}
    /\ cmds = <<>> /\ secrets_checked = {} /\ pods_out = <<>> /\ pod_id = <<>>
    /\ current_version = <<>> /\ new_version = <<>>
    /\ slack_token = <<>> /\ jenkins_api_token = <<>>
    /\ delete_desc_file = TRUE /\ template = <<>> /\ template_read = FALSE
    /\ kube_desc = 0 /\ created = {}
    /\ \E c \in InitialClusters :
          k8s_pods = c.pods /\ completed = c.completed /\ partial = c.partial
    /\ fs_secret \in InitialSecrets
    /\ fs_template \in {Absent, File(TemplateFile)}
    /\ fs_tmp = <<>>
    /\ deployed = <<>>

\* run_command without its check of the return code.
run_command_exc_unchecked(out) == IF out = "nostart" THEN "OSError" ELSE "none"

\* run_command's end: CalledProcessError on a non-zero return code; Popen's
\* OSError when the command did not start.
run_command_exc(out) ==
    IF out = "zero" THEN "none"
    ELSE IF out = "nonzero" THEN "CalledProcessError"
    ELSE "OSError"

\* rebuild_image(): docker build, then gcloud docker push.
rebuild_image ==
    /\ pc = "start" /\ entry = "main"
    /\ \E build \in Outcomes, push \in Outcomes :
          IF run_command_exc(build) # "none"
          THEN /\ cmds' = Append(cmds, Cmd("docker", "build", <<>>, 0, build))
               /\ exc' = run_command_exc(build)
               /\ pc' = "raise"
          ELSE /\ cmds' = cmds \o <<Cmd("docker", "build", <<>>, 0, build),
                                    Cmd("gcloud", "push", <<>>, 0, push)>>
               /\ exc' = run_command_exc(push)
               /\ pc' = IF run_command_exc(push) # "none" THEN "raise" ELSE "get_pod_id"
    /\ UNCHANGED <<entry, run, status, secrets_checked, pods_out, pod_id, current_version,
                   new_version, slack_token, jenkins_api_token, delete_desc_file, template,
                   template_read, kube_desc, created, envVars, histVars, pureVars>>

\* get_pod_id(): kubectl get pods, then the first match of POD_ID_MATCH in its
\* output; .group(0) of no match raises AttributeError.
get_pod_id ==
    /\ pc = "get_pod_id"
    /\ \E out \in Outcomes :
          /\ cmds' = Append(cmds, Cmd("kubectl", "get", <<>>, 0, out))
          /\ IF run_command_exc(out) # "none"
             THEN /\ exc' = run_command_exc(out)
                  /\ pc' = "raise"
                  /\ UNCHANGED <<pods_out, pod_id>>
             ELSE LET m == POD_ID_MATCH_search(PodListing(k8s_pods))
                  IN  /\ pods_out' = PodListing(k8s_pods)
                      /\ pod_id' = m.group
                      /\ exc' = IF m.found THEN "none" ELSE "AttributeError"
                      /\ pc' = IF m.found THEN "versions" ELSE "raise"
    /\ UNCHANGED <<entry, run, status, secrets_checked, current_version,
                   new_version, slack_token, jenkins_api_token, delete_desc_file, template,
                   template_read, kube_desc, created, envVars, histVars, pureVars>>

\* main(), lines 120-121: the current version and the next one.
main_versions ==
    /\ pc = "versions"
    /\ LET cv == get_version(pod_id)
           nv == increment_version(cv)
       IN  /\ current_version' = cv
           /\ new_version' = nv.val
           /\ exc' = nv.exc
           /\ pc' = IF nv.exc = "none" THEN "slack" ELSE "raise"
    /\ UNCHANGED <<entry, run, status, cmds, secrets_checked, pods_out, pod_id,
                   slack_token, jenkins_api_token, delete_desc_file, template,
                   template_read, kube_desc, created, envVars, histVars, pureVars>>

\* get_secret that prints its message and goes on without exit(1).
get_secret_noexit(filename) ==
    [exc |-> "none", val |-> Strip(fs_secret[filename].content)]

\* get_secret(filename, passphrase_id): exit(1) when the file does not exist,
\* else its content, stripped.
get_secret(filename) ==
    IF fs_secret[filename] = Absent
    THEN [exc |-> "SystemExit", val |-> <<>>]
    ELSE [exc |-> "none", val |-> Strip(fs_secret[filename].content)]

\* main(), line 122.
main_slack_token ==
    /\ pc = "slack"
    /\ LET r == get_secret(SLACK_TOKEN_FILE)
       IN  /\ secrets_checked' = secrets_checked \cup {SLACK_TOKEN_FILE}
           /\ slack_token' = r.val
           /\ exc' = r.exc
           /\ pc' = IF r.exc = "none" THEN "jenkins" ELSE "raise"
    /\ UNCHANGED <<entry, run, status, cmds, pods_out, pod_id, current_version, new_version,
                   jenkins_api_token, delete_desc_file, template,
                   template_read, kube_desc, created, envVars, histVars, pureVars>>

\* main(), lines 123-124: the second secret, then the call of deploy() with its
\* default delete_desc_file.
main_jenkins_api_token ==
    /\ pc = "jenkins"
    /\ LET r == get_secret(JENKINS_API_TOKEN_FILE)
       IN  /\ secrets_checked' = secrets_checked \cup {JENKINS_API_TOKEN_FILE}
           /\ jenkins_api_token' = r.val
           /\ exc' = r.exc
           /\ pc' = IF r.exc = "none" THEN "deploy" ELSE "raise"
    /\ delete_desc_file' = TRUE
    /\ UNCHANGED <<entry, run, status, cmds, pods_out, pod_id, current_version, new_version,
                   slack_token, template,
                   template_read, kube_desc, created, envVars, histVars, pureVars>>

\* deploy() called by another caller than main(), with arguments of its choice.
deploy_call ==
    /\ pc = "start" /\ entry = "deploy"
    /\ current_version' = VersionText(Frontend, 3)
    /\ new_version' = VersionText(Frontend, 4)
    /\ slack_token' = Strip(SecretContent[SLACK_TOKEN_FILE])
    /\ jenkins_api_token' = Strip(SecretContent[JENKINS_API_TOKEN_FILE])
    /\ delete_desc_file' \in BOOLEAN
    /\ pc' = "deploy"
    /\ UNCHANGED <<entry, run, status, exc, cmds, secrets_checked, pods_out, pod_id,
                   template, template_read, kube_desc, created, envVars, histVars, pureVars>>

\* deploy(), lines 102-105: the template is read (IOError when it is missing) and
\* the three placeholders are replaced.
deploy_render ==
    /\ pc = "deploy"
    /\ IF fs_template = Absent
       THEN /\ exc' = "IOError"
            /\ pc' = "raise"
            /\ UNCHANGED <<template, template_read>>
       ELSE /\ template' = Render(fs_template.content, new_version, slack_token, jenkins_api_token)
            /\ template_read' = TRUE
            /\ exc' = "none"
            /\ pc' = "deploy_write"
    /\ UNCHANGED <<entry, run, status, cmds, secrets_checked, pods_out, pod_id,
                   current_version, new_version, slack_token, jenkins_api_token,
                   delete_desc_file, kube_desc, created, envVars, histVars, pureVars>>

\* The temp directory with file `name` holding `content`.
WithFile(name, content) ==
    [n \in DOMAIN fs_tmp \cup {name} |-> IF n = name THEN content ELSE fs_tmp[n]]

\* The temp directory without file `name`.
WithoutFile(name) == [n \in DOMAIN fs_tmp \ {name} |-> fs_tmp[n]]

\* deploy(), lines 106-108: the temporary file is created (delete=False), the
\* rendered template written to it, and the file closed.  Creating may fail (no
\* file then); writing or flushing may fail (the file exists then, and what
\* reached it is modelled as nothing).  Both happen before the try statement.
deploy_write ==
    /\ pc = "deploy_write"
    /\ \E io \in {"ok", "create_fails", "write_fails"} :
          IF io = "create_fails"
          THEN /\ exc' = "OSError"
               /\ pc' = "raise"
               /\ UNCHANGED <<kube_desc, created, fs_tmp>>
          ELSE /\ kube_desc' = FreshName
               /\ created' = created \cup {FreshName}
               /\ fs_tmp' = WithFile(FreshName, IF io = "ok" THEN template ELSE <<>>)
               /\ exc' = IF io = "ok" THEN "none" ELSE "IOError"
               /\ pc' = IF io = "ok" THEN "deploy_update" ELSE "raise"
    /\ UNCHANGED <<entry, run, status, cmds, secrets_checked, pods_out, pod_id,
                   current_version, new_version, slack_token, jenkins_api_token,
                   delete_desc_file, template, template_read,
                   k8s_pods, fs_secret, fs_template, histVars, pureVars>>

\* What `kubectl rolling-update current -f file` does to the orchestrator: "all"
\* replaces every pod by a pod of the new version, "first" and "last" leave a pod
\* of the new version beside the old ones (listed first or last), "none" changes
\* nothing.  Exit code zero goes with "all"; a non-zero exit code with the others.
\* Pods are replaced only when the controller `current` runs.
UpdateEffects(out) ==
    IF out = "zero" THEN IF RunsVersion(k8s_pods, current_version) THEN {"all"} ELSE {}
    ELSE IF out = "nostart" THEN {"none"}
    ELSE IF RunsVersion(k8s_pods, current_version) THEN {"none", "first", "last"}
    ELSE {"none"}

NewPod == new_version \o <<"-">> \o PodSuffix

PodsAfter(eff) ==
    IF eff = "all" THEN <<NewPod>>
    ELSE IF eff = "none" \/ \E i \in 1..Len(k8s_pods) : k8s_pods[i] = NewPod THEN k8s_pods
    ELSE IF eff = "first" THEN <<NewPod>> \o k8s_pods
    ELSE k8s_pods \o <<NewPod>>

\* deploy(), lines 109-111: the try statement's body.  Whatever run_command
\* raises is held until the finally clause has run.
deploy_rolling_update ==
    /\ pc = "deploy_update"
    /\ \E out \in Outcomes :
          \E eff \in UpdateEffects(out) :
             /\ cmds' = Append(cmds, Cmd("kubectl", "rolling-update", current_version,
                                         kube_desc, out))
             /\ exc' = run_command_exc(out)
             /\ k8s_pods' = PodsAfter(eff)
             /\ completed' = IF eff = "all" THEN new_version ELSE completed
             /\ partial' = (partial \/ eff \in {"first", "last"})
             /\ deployed' = IF out = "nostart" THEN deployed
                            ELSE Append(deployed, [run |-> run, current |-> current_version,
                                                   new |-> new_version, base |-> completed,
                                                   out |-> out])
    /\ pc' = "deploy_finally"
    /\ UNCHANGED <<entry, run, status, secrets_checked, pods_out, pod_id,
                   current_version, new_version, slack_token, jenkins_api_token,
                   delete_desc_file, template, template_read, kube_desc, created,
                   fs_secret, fs_template, fs_tmp, pureVars>>

\* The unlink after the call in the place of in a finally clause: skipped when
\* run_command raises.
deploy_finally_skipped ==
    /\ pc = "deploy_finally"
    /\ fs_tmp' = IF delete_desc_file /\ exc = "none" THEN WithoutFile(kube_desc) ELSE fs_tmp
    /\ pc' = IF exc = "none" THEN "return" ELSE "raise"
    /\ UNCHANGED <<entry, run, status, exc, cmds, secrets_checked, pods_out, pod_id,
                   current_version, new_version, slack_token, jenkins_api_token,
                   delete_desc_file, template, template_read, kube_desc, created,
                   k8s_pods, fs_secret, fs_template, histVars, pureVars>>

\* deploy(), lines 112-114: the finally clause; then the held exception, if any,
\* goes on to the caller.
deploy_finally ==
    /\ pc = "deploy_finally"
    /\ fs_tmp' = IF delete_desc_file THEN WithoutFile(kube_desc) ELSE fs_tmp
    /\ pc' = IF exc = "none" THEN "return" ELSE "raise"
    /\ UNCHANGED <<entry, run, status, exc, cmds, secrets_checked, pods_out, pod_id,
                   current_version, new_version, slack_token, jenkins_api_token,
                   delete_desc_file, template, template_read, kube_desc, created,
                   k8s_pods, fs_secret, fs_template, histVars, pureVars>>

\* The interpreter ends the run: status 0 when main() returned, the argument of
\* exit(1) for SystemExit, and 1 after the traceback of any other exception.
ExitStatus(e) == IF e = "none" THEN 0 ELSE 1

Terminate ==
    /\ pc \in {"return", "raise"}
    /\ status' = ExitStatus(exc)
    /\ pc' = "exited"
    /\ UNCHANGED <<entry, run, exc, cmds, secrets_checked, pods_out, pod_id,
                   current_version, new_version, slack_token, jenkins_api_token,
                   delete_desc_file, template, template_read, kube_desc, created,
                   envVars, histVars, pureVars>>

\* The operator runs the script again: a new process, the same orchestrator and
\* the same files.
NextRun ==
    /\ pc = "exited" /\ run < MaxRuns
    /\ run' = run + 1
    /\ pc' = "start" /\ status' = -1 /\ exc' = "none"
    /\ cmds' = <<>> /\ secrets_checked' = {} /\ pods_out' = <<>> /\ pod_id' = <<>>
    /\ current_version' = <<>> /\ new_version' = <<>>
    /\ slack_token' = <<>> /\ jenkins_api_token' = <<>>
    /\ delete_desc_file' = TRUE /\ template' = <<>> /\ template_read' = FALSE
    /\ kube_desc' = 0 /\ created' = {}
    /\ UNCHANGED <<entry, envVars, histVars, pureVars>>

Next ==
    \/ rebuild_image
    \/ get_pod_id
    \/ main_versions
    \/ main_slack_token
    \/ main_jenkins_api_token
    \/ deploy_call
    \/ deploy_render
    \/ deploy_write
    \/ deploy_rolling_update
    \/ deploy_finally
    \/ Terminate
    \/ NextRun

Spec == Init /\ [][Next]_vars

----------------------------------------------------------------------------
(* Properties of a run *)

LastCmd == cmds[Len(cmds)]

Invoked(sub) == \E i \in 1..Len(cmds) : cmds[i].sub = sub

Ended == pc \in {"return", "raise", "exited"}

\* A text POD_ID_MATCH matches as a whole: "frontend-v", digits, a hyphen, then
\* characters that are not whitespace.
IsPodIdText(s) ==
    \E d \in 1..Len(s) :
        /\ OccursAt(s, FrontendV, 1)
        /\ d > Len(FrontendV)
        /\ \A k \in (Len(FrontendV) + 1)..d : IsDigit(s[k])
        /\ d + 2 <= Len(s)
        /\ s[d + 1] = "-"
        /\ \A k \in (d + 2)..Len(s) : ~IsSpace(s[k])

\* The positions of t at which some text matching POD_ID_MATCH starts.
MatchStarts(t) ==
    { i \in 1..Len(t) :
        OccursAt(t, FrontendV, i) /\ \E j \in i..Len(t) : IsPodIdText(SubSeq(t, i, j)) }

\* The numeral <N> of a pod name "frontend-v<N>-<suffix>".
PodNumeral(p) ==
    LET d == CHOOSE d \in (Len(FrontendV) + 1)..Len(p) :
                 /\ \A k \in (Len(FrontendV) + 1)..d : IsDigit(p[k])
                 /\ p[d + 1] = "-"
    IN  SubSeq(p, Len(FrontendV) + 1, d)

\* C1 as stated: in a run of main() in which get_secret finds a secret file
\* missing, the run exits with status 1 and makes no template read, no temporary
\* file and no kubectl invocation at all.
C1_NoOrchestratorInvocation ==
    (entry = "main" /\ \E f \in secrets_checked : fs_secret[f] = Absent) =>
        /\ pc = "exited" => status = 1
        /\ ~template_read
        /\ created = {}
        /\ \A i \in 1..Len(cmds) : cmds[i].tool # "kubectl"

\* C1, amended: in a run of main() in which get_secret finds a secret file
\* missing, the run exits with status 1 and makes no template read, no temporary
\* file and no rolling-update invocation; the pod listing (kubectl get pods),
\* made before the secrets are read, is the run's only kubectl invocation.
C1_MissingSecret ==
    (entry = "main" /\ \E f \in secrets_checked : fs_secret[f] = Absent) =>
        /\ exc = "SystemExit"
        /\ pc \in {"raise", "exited"}
        /\ pc = "exited" => status = 1
        /\ ~template_read
        /\ created = {}
        /\ fs_tmp = <<>>
        /\ ~Invoked("rolling-update")
        /\ \A i \in 1..Len(cmds) : cmds[i].tool = "kubectl" => cmds[i].sub = "get"

\* C1, witness: the run exited on the missing Jenkins token file, the Slack token file read.
C1_Witness ==
    /\ entry = "main" /\ pc = "exited" /\ status = 1
    /\ secrets_checked = SecretFiles
    /\ fs_secret[SLACK_TOKEN_FILE] # Absent
    /\ fs_secret[JENKINS_API_TOKEN_FILE] = Absent
    /\ slack_token = <<"x","o","x","b","-","1","2">>

\* C2: with delete_desc_file true, once the rolling-update command ran and
\* deploy() has returned or raised, the temporary file does not exist; a non-zero
\* exit code is raised as CalledProcessError and ends the run with a non-zero
\* status, the file being gone when the exception leaves deploy().
C2_TempFileRemoved ==
    (/\ delete_desc_file /\ Ended
     /\ Invoked("rolling-update") /\ LastCmd.out \in {"zero", "nonzero"}) =>
        /\ kube_desc \notin DOMAIN fs_tmp
        /\ LastCmd.file = kube_desc
        /\ LastCmd.out = "zero" => exc = "none" /\ pc # "raise"
        /\ LastCmd.out = "nonzero" => exc = "CalledProcessError" /\ pc # "return"
        /\ (LastCmd.out = "nonzero" /\ pc = "exited") => status = 1

\* C2, witness: the failure of a rolling-update leaves deploy(), the temporary file removed.
C2_Witness ==
    /\ delete_desc_file /\ pc = "raise"
    /\ Invoked("rolling-update") /\ LastCmd.out = "nonzero"
    /\ kube_desc \in created
    /\ kube_desc \notin DOMAIN fs_tmp

\* C6: in a run of main() whose first match in the pod listing is
\* "frontend-v<N>-<suffix>", rolling-update is invoked with "frontend-v<N>" and
\* the name of the temporary file, and that file holds the template with the
\* version placeholder replaced by "frontend-v<N+1>" (and the two tokens in
\* their places).
C6_RollingUpdateArguments ==
    (entry = "main" /\ pc = "deploy_finally") =>
        LET first == CHOOSE i \in MatchStarts(pods_out) : \A k \in MatchStarts(pods_out) : i <= k
            numeral == PodNumeral(Drop(pods_out, first))
        IN  /\ LastCmd.tool = "kubectl" /\ LastCmd.sub = "rolling-update"
            /\ LastCmd.arg = FrontendV \o numeral
            /\ LastCmd.file = kube_desc
            /\ kube_desc \in DOMAIN fs_tmp
            /\ fs_tmp[kube_desc] =
                  TemplateText(FrontendV \o NatStr(DigitsVal(numeral) + 1),
                               <<"x","o","x","b","-","1","2">>, <<"k","9">>)

\* C6, witness: the example of the specification: "frontend-v3-abcde" gives rolling-update of
\* frontend-v3 with frontend-v4 in the rendered file.
C6_Witness ==
    /\ entry = "main" /\ pc = "deploy_finally"
    /\ pod_id = <<"f","r","o","n","t","e","n","d","-","v","3","-","a","b","c","d","e">>
    /\ LastCmd.arg = <<"f","r","o","n","t","e","n","d","-","v","3">>
    /\ Count(fs_tmp[kube_desc], <<"f","r","o","n","t","e","n","d","-","v","4">>) = 1
    /\ Count(fs_tmp[kube_desc], VERSION_REPLACEMENT) = 0

\* C7: a non-zero exit code of docker build or of the push is the last thing
\* the run does: no command follows it, no secret is read, no template is read,
\* no temporary file is made, and the run ends with a non-zero status.
C7_BuildPushAbort ==
    \A i \in 1..Len(cmds) :
        (cmds[i].sub \in {"build", "push"} /\ cmds[i].out = "nonzero") =>
            /\ i = Len(cmds)
            /\ pc \in {"raise", "exited"}
            /\ exc = "CalledProcessError"
            /\ pc = "exited" => status > 0
            /\ secrets_checked = {} /\ ~template_read /\ created = {}
            /\ pods_out = <<>>

\* C7, witness: the push failed after a successful build, and the run exited with status 1.
C7_Witness ==
    /\ pc = "exited" /\ status = 1
    /\ Len(cmds) = 2
    /\ cmds[1].sub = "build" /\ cmds[1].out = "zero"
    /\ cmds[2].sub = "push" /\ cmds[2].out = "nonzero"

\* C8: get_pod_id returns a text matching the pattern that starts at the first
\* position of the listing where a match starts; when the listing holds no match
\* or kubectl get pods exits non-zero, the run aborts: no secret is read, no
\* temporary file is made, rolling-update is not invoked.
C8_GetPodId ==
    /\ (entry = "main" /\ pc = "versions") =>
          /\ MatchStarts(pods_out) # {}
          /\ \E i \in MatchStarts(pods_out) :
                /\ \A k \in MatchStarts(pods_out) : i <= k
                /\ OccursAt(pods_out, pod_id, i)
          /\ IsPodIdText(pod_id)
    /\ (/\ entry = "main" /\ Invoked("get")
        /\ \E i \in 1..Len(cmds) :
              /\ cmds[i].sub = "get"
              /\ \/ cmds[i].out = "nonzero"
                 \/ cmds[i].out = "zero" /\ MatchStarts(pods_out) = {}) =>
          /\ pc \in {"raise", "exited"}
          /\ exc \in {"CalledProcessError", "AttributeError"}
          /\ pc = "exited" => status > 0
          /\ secrets_checked = {} /\ created = {} /\ ~Invoked("rolling-update")

\* C8, witness: get_pod_id returned the first of two pod names of the listing.
C8_Witness ==
    /\ entry = "main" /\ pc = "versions"
    /\ Cardinality(MatchStarts(pods_out)) = 2
    /\ pod_id = <<"f","r","o","n","t","e","n","d","-","v","4","-","x","7">>

\* C9 as stated: with delete_desc_file true, on every path by which deploy()
\* ends, no temporary file made in the run exists any more.
C9_ReleasedOnAllPaths ==
    (delete_desc_file /\ Ended) => \A n \in created : n \notin DOMAIN fs_tmp

\* Version numbers the runs can reach.
VersionNumbers == 0..(100 + MaxRuns)

\* C10 as stated: over the runs of main(), every rolling-update invoked deploys
\* prefix "frontend" and a number one greater than the rolling-update invoked
\* before it.
C10_NeverReused ==
    entry = "main" =>
        \A k \in 1..Len(deployed) :
            /\ \E n \in VersionNumbers : deployed[k].new = VersionText(Frontend, n)
            /\ k > 1 =>
                  \E n \in VersionNumbers :
                      /\ deployed[k - 1].new = VersionText(Frontend, n)
                      /\ deployed[k].new = VersionText(Frontend, n + 1)

\* C10, amended: over the runs of main(), as long as every rolling-update either
\* completed or changed nothing (the listing shows the pods of the last
\* completed deployment only), every rolling-update invoked replaces the last
\* completed version "frontend-v<N>" by "frontend-v<N+1>"; so the number after
\* a completed rolling-update is one greater, and after a failed one the same.
C10_OneMoreThanCompleted ==
    (entry = "main" /\ ~partial) =>
        \A k \in 1..Len(deployed) :
            /\ \E n \in VersionNumbers :
                  /\ deployed[k].base = VersionText(Frontend, n)
                  /\ deployed[k].current = VersionText(Frontend, n)
                  /\ deployed[k].new = VersionText(Frontend, n + 1)
            /\ k > 1 =>
                  deployed[k].base =
                     IF deployed[k - 1].out = "zero" THEN deployed[k - 1].new
                     ELSE deployed[k - 1].base

\* C10, witness: two runs deployed one after the other, from frontend-v9 to frontend-v11.
C10_Witness ==
    /\ entry = "main" /\ ~partial
    /\ Len(deployed) >= 2
    /\ deployed[1].out = "zero" /\ deployed[1].new = VersionText(Frontend, 10)
    /\ deployed[2].out = "zero" /\ deployed[2].new = VersionText(Frontend, 11)

====
